---- MODULE Spec2Model ----
(***************************************************************************)
(* Model of server/camera_server.py: the CameraStreamer object, the Flask  *)
(* request handlers that drive it, the capture thread(s) it spawns and the *)
(* generate_frames() sessions that read its frame slot.                    *)
(*                                                                         *)
(* Every thread of the program is a process of the model with a program    *)
(* counter; one action is one step of a thread between two accesses to     *)
(* shared state.                                                           *)
(***************************************************************************)
EXTENDS Integers, Sequences, FiniteSets, TLC

\* ------------------------------------------------------------------ bounds
\* VideoCapture objects constructed in one behaviour (one per start_streaming call).
MaxOpens == 2
\* Frames the device delivers in one behaviour.
MaxFrames == 2

\* ------------------------------------------------------- program constants
\* CameraStreamer.__init__ defaults (the requested configuration).
DefaultWidth == 640
DefaultHeight == 480
DefaultFps == 30

\* Request threads that call start_camera / stop_camera (threaded=True).
Ctl == {1, 2}
\* Concurrent /video_feed consumers.
Sess == {1, 2}

\* Python's None for the camera attribute and for the frame slot.
None == 0
NoFrame == <<>>
\* threading.Lock(): unlocked.
NoOwner == <<"none", 0>>

\* The devices that may be attached: the mode a device is in when it is
\* opened, which is also the most it can deliver (a request above it is
\* clamped).  The first grants the default request as it stands, the second
\* does not.
DeviceCaps ==
    { [w |-> 1280, h |-> 720, fps |-> 60],
      [w |-> 320, h |-> 240, fps |-> 15] }

VARIABLES
    devCaps,       \* the attached device's capabilities (fixed per run)
    devSeq,        \* frames delivered by the device so far (capture order)
    width, height, fps,   \* CameraStreamer.width / height / fps
    camera,        \* CameraStreamer.camera: None or the index of a handle
    handles,       \* every cv2.VideoCapture constructed so far
    frame,         \* CameraStreamer.frame, the slot
    is_streaming,  \* CameraStreamer.is_streaming
    lock,          \* CameraStreamer.lock: NoOwner or the holder
    threads,       \* every capture thread spawned so far
    cpc,           \* position of each request thread in start/stop_streaming
    spc,           \* position of each /video_feed request and its generator
    snap,          \* each generator's local frame (the get_frame() result)
    stopSeen,      \* history: stop_streaming was called while the session was live
                   \* (read by no action)
    raised,        \* an operation raised an unhandled exception
    main           \* position of the main thread in main() and how app.run ended

vars == << devCaps, devSeq, width, height, fps, camera, handles, frame,
           is_streaming, lock, threads, cpc, spc, snap, stopSeen, raised,
           main >>

deviceVars == << devCaps, devSeq >>
configVars == << width, height, fps >>
sessVars == << spc, snap, stopSeen >>

Min(a, b) == IF a <= b THEN a ELSE b

\* ------------------------------------------------------------- the device
\* camera.set(...) followed by camera.get(...): the hardware grants at most
\* what it supports.
Grant(req, caps) ==
    [w |-> Min(req.w, caps.w), h |-> Min(req.h, caps.h), fps |-> Min(req.fps, caps.fps)]

\* cv2.VideoCapture(index): a new handle, opened or not, in the device's
\* own mode.  A handle stays in handles for good, referenced or not.
NewHandle(ok, caps) ==
    [st |-> IF ok THEN "open" ELSE "failed", props |-> caps]

\* camera.isOpened()
IsOpened(h) == handles[h].st = "open"

\* camera.release(): harmless on a handle that is not open.
Release(hs, h) ==
    [hs EXCEPT ![h].st = IF @ = "open" THEN "released" ELSE @]

\* frame.copy()
FrameCopy(f) == << f[1], f[2] >>

\* ------------------------------------------------------------------ Init
\* The module is imported and main() is not running: the module-level
\* camera_streamer = CameraStreamer() serves the routes.
MainNotRun == [pc |-> "import", how |-> "none"]

\* The CameraStreamer object as __init__ leaves it, no request received.
Constructed ==
    /\ devCaps \in DeviceCaps
    /\ devSeq = 0
    /\ width = DefaultWidth
    /\ height = DefaultHeight
    /\ fps = DefaultFps
    /\ camera = None
    /\ handles = << >>
    /\ frame = NoFrame
    /\ is_streaming = FALSE
    /\ lock = NoOwner
    /\ threads = << >>
    /\ cpc = [c \in Ctl |-> "idle"]
    /\ spc = [s \in Sess |-> "idle"]
    /\ snap = [s \in Sess |-> NoFrame]
    /\ stopSeen = [s \in Sess |-> FALSE]
    /\ raised = FALSE

Init == Constructed /\ main = MainNotRun

\* ------------------------------------------------ start_streaming (55-65)
\* Pcs of a request thread: "idle" (no call in progress), "init" (inside
\* initialize_camera, the VideoCapture constructed), "flag" (initialize_camera
\* returned True), "release" (stop_streaming has cleared the flag).

\* A capture thread as threading.Thread(target=self._capture_frames) starts it.
NewThread == [pc |-> "test", frame |-> NoFrame]

\* Line 34: self.camera = cv2.VideoCapture(self.camera_index).  Whether the
\* open succeeds is the environment's choice.  There is no check of
\* is_streaming before it.
StartOpen(c) ==
    /\ cpc[c] = "idle"
    /\ Len(handles) < MaxOpens
    /\ \E ok \in BOOLEAN :
          handles' = Append(handles, NewHandle(ok, devCaps))
    /\ camera' = Len(handles) + 1
    /\ cpc' = [cpc EXCEPT ![c] = "init"]
    /\ UNCHANGED << deviceVars, configVars, frame, is_streaming, lock, threads,
                    sessVars, raised >>

\* Lines 35-36, 51-53, 57-58: isOpened() is false, the exception is caught,
\* initialize_camera returns False and so does start_streaming.
StartFail(c) ==
    /\ cpc[c] = "init"
    /\ ~IsOpened(camera)
    /\ cpc' = [cpc EXCEPT ![c] = "idle"]
    /\ UNCHANGED << deviceVars, configVars, camera, handles, frame, is_streaming,
                    lock, threads, sessVars, raised >>

\* Lines 35-49: isOpened() is true; the three set() calls, the three get()
\* calls (their results are logged only) and return True.
StartConfigure(c) ==
    /\ cpc[c] = "init"
    /\ IsOpened(camera)
    /\ handles' = [handles EXCEPT ![camera].props =
                      Grant([w |-> width, h |-> height, fps |-> fps], devCaps)]
    /\ cpc' = [cpc EXCEPT ![c] = "flag"]
    /\ UNCHANGED << deviceVars, configVars, camera, frame, is_streaming, lock,
                    threads, sessVars, raised >>

\* Lines 60-65: set the flag, create and start the thread, return True.
StartSpawn(c) ==
    /\ cpc[c] = "flag"
    /\ is_streaming' = TRUE
    /\ threads' = Append(threads, NewThread)
    /\ cpc' = [cpc EXCEPT ![c] = "idle"]
    /\ UNCHANGED << deviceVars, configVars, camera, handles, frame, lock,
                    sessVars, raised >>

\* Line 34 rebinds self.camera and drops the only reference to the previous
\* VideoCapture object; nothing in the code releases it.  The interpreter may
\* finalize such an object, which closes the device, at once, later (a read
\* in progress still refers to it) or never.
Finalize(h) ==
    /\ h # camera
    /\ handles[h].st = "open"
    /\ handles' = Release(handles, h)
    /\ UNCHANGED << deviceVars, configVars, camera, frame, is_streaming, lock,
                    threads, cpc, sessVars, raised >>

\* -------------------------------------------------- stop_streaming (67-72)
\* A generator that has been created and has not finished.
SessLive(s) == spc[s] \in {"test", "snapshot", "copy", "yield"}

\* A stop that also empties the slot.
StopSignalClearsSlot(c) ==
    /\ cpc[c] = "idle"
    /\ is_streaming' = FALSE
    /\ frame' = NoFrame
    /\ cpc' = [cpc EXCEPT ![c] = "release"]
    /\ stopSeen' = [s \in Sess |-> SessLive(s)]
    /\ UNCHANGED << deviceVars, configVars, camera, handles, lock, threads,
                    spc, snap, raised >>

\* Line 69: self.is_streaming = False.  (stopSeen records the sessions that
\* are live at this moment.)
StopSignal(c) ==
    /\ cpc[c] = "idle"
    /\ is_streaming' = FALSE
    /\ cpc' = [cpc EXCEPT ![c] = "release"]
    /\ stopSeen' = [s \in Sess |-> SessLive(s)]
    /\ UNCHANGED << deviceVars, configVars, camera, handles, frame, lock, threads,
                    spc, snap, raised >>

\* stop_streaming without the guard of line 70.
CameraIsSetAlways(cam) == TRUE

\* Line 70: the truth value of self.camera (a VideoCapture object is truthy,
\* None is not).
CameraIsSet(cam) == cam # None

\* Lines 70-72: release the handle if there is one, return.  release() on
\* None would raise AttributeError.
StopRelease(c) ==
    /\ cpc[c] = "release"
    /\ IF CameraIsSet(camera)
         THEN IF camera = None
                THEN raised' = TRUE /\ handles' = handles
                ELSE raised' = raised /\ handles' = Release(handles, camera)
         ELSE UNCHANGED << handles, raised >>
    /\ cpc' = [cpc EXCEPT ![c] = "idle"]
    /\ UNCHANGED << deviceVars, configVars, camera, frame, is_streaming, lock,
                    threads, sessVars >>

\* ------------------------------------------------- _capture_frames (74-83)
\* Pcs of a capture thread: "test" (at the while condition), "read" (about to
\* call camera.read()), "publish" (a frame in hand, entering the with block),
\* "sleep" (a read has failed, in time.sleep(0.1)), "done" (returned).
Threads == 1 .. Len(threads)

\* A with block that does not wait for the lock.
LockFreeAlways == TRUE

\* threading.Lock: acquire succeeds only when nobody holds it.
LockFree == lock = NoOwner

\* Line 76: while self.is_streaming.
CapTest(t) ==
    /\ threads[t].pc = "test"
    /\ threads' = [threads EXCEPT ![t].pc = IF is_streaming THEN "read" ELSE "done"]
    /\ UNCHANGED << deviceVars, configVars, camera, handles, frame, is_streaming,
                    lock, cpc, sessVars, raised >>

\* Lines 77-78: self.camera.read() on the current handle delivers the
\* device's next frame.
CapReadOk(t) ==
    /\ threads[t].pc = "read"
    /\ IsOpened(camera)
    /\ devSeq < MaxFrames
    /\ devSeq' = devSeq + 1
    /\ threads' = [threads EXCEPT ![t] =
                      [pc |-> "publish", frame |-> << devSeq + 1, devSeq + 1 >>]]
    /\ UNCHANGED << devCaps, configVars, camera, handles, frame, is_streaming,
                    lock, cpc, sessVars, raised >>

\* A loop that gives up on a failed read.
AfterFailedReadExit == "done"

\* Where a thread is after a read that returned ret = False (lines 81-83):
\* in the sleep, inside the loop.
AfterFailedRead == "sleep"

\* A failed read that throws the published frame away.
CapReadFailClearsSlot(t) ==
    /\ threads[t].pc = "read"
    /\ threads' = [threads EXCEPT ![t] =
                      [pc |-> AfterFailedRead, frame |-> NoFrame]]
    /\ frame' = NoFrame
    /\ UNCHANGED << deviceVars, configVars, camera, handles, is_streaming,
                    lock, cpc, sessVars, raised >>

\* Lines 77, 81-83: read() returns (False, None): always on a handle that is
\* not open, at the device's whim on an open one.  Log.
CapReadFail(t) ==
    /\ threads[t].pc = "read"
    /\ threads' = [threads EXCEPT ![t] =
                      [pc |-> AfterFailedRead, frame |-> NoFrame]]
    /\ UNCHANGED << deviceVars, configVars, camera, handles, frame, is_streaming,
                    lock, cpc, sessVars, raised >>

\* Line 83: time.sleep(0.1) returns, back to the while condition.
CapSleep(t) ==
    /\ threads[t].pc = "sleep"
    /\ threads' = [threads EXCEPT ![t].pc = "test"]
    /\ UNCHANGED << deviceVars, configVars, camera, handles, frame, is_streaming,
                    lock, cpc, sessVars, raised >>

\* Lines 79-80: with self.lock: self.frame = frame.copy().  The block holds
\* the lock for this one assignment.
CapPublish(t) ==
    /\ threads[t].pc = "publish"
    /\ LockFree
    /\ frame' = FrameCopy(threads[t].frame)
    /\ threads' = [threads EXCEPT ![t].pc = "test", ![t].frame = NoFrame]
    /\ UNCHANGED << deviceVars, configVars, camera, handles, is_streaming, lock,
                    cpc, sessVars, raised >>

\* ------------------------------------------ video_feed (113-120), 85-101
\* Pcs of a /video_feed request: "idle" (no request yet), "rejected" (answered
\* 503), then the generator: "test" (at the while condition), "snapshot"
\* (calling get_frame, entering its with block), "copy" (holding the lock,
\* half of self.frame.copy() done), "yield" (suspended at the yield, the chunk
\* handed to the server), "ended" (the generator finished or was closed).
\* The sleep at the end of an iteration touches nothing shared and is part of
\* the step before it.

\* A route that does not look at is_streaming.
FeedAvailableAlways == TRUE

\* Line 116: the guard of the route.
FeedAvailable == is_streaming

\* Lines 116-117: return "Camera not available", 503.
FeedReject(s) ==
    /\ spc[s] \in {"idle", "rejected"}
    /\ ~FeedAvailable
    /\ spc' = [spc EXCEPT ![s] = "rejected"]
    /\ UNCHANGED << deviceVars, configVars, camera, handles, frame, is_streaming,
                    lock, threads, cpc, snap, stopSeen, raised >>

\* Lines 119-120: Response(generate_frames()); the server starts to iterate.
FeedAccept(s) ==
    /\ spc[s] \in {"idle", "rejected"}
    /\ FeedAvailable
    /\ spc' = [spc EXCEPT ![s] = "test"]
    /\ UNCHANGED << deviceVars, configVars, camera, handles, frame, is_streaming,
                    lock, threads, cpc, snap, stopSeen, raised >>

\* Line 92: while self.is_streaming.
SessTest(s) ==
    /\ spc[s] = "test"
    /\ IF is_streaming
         THEN /\ spc' = [spc EXCEPT ![s] = "snapshot"]
              /\ UNCHANGED << snap, stopSeen >>
         ELSE /\ spc' = [spc EXCEPT ![s] = "ended"]
              /\ snap' = [snap EXCEPT ![s] = NoFrame]
              /\ stopSeen' = [stopSeen EXCEPT ![s] = FALSE]
    /\ UNCHANGED << deviceVars, configVars, camera, handles, frame, is_streaming,
                    lock, threads, cpc, raised >>

\* A generator that hands over a chunk although get_frame returned None.
SessSnapshotNoneEmits(s) ==
    /\ spc[s] = "snapshot"
    /\ LockFree
    /\ frame = NoFrame
    /\ snap' = [snap EXCEPT ![s] = NoFrame]
    /\ spc' = [spc EXCEPT ![s] = "yield"]
    /\ UNCHANGED << deviceVars, configVars, camera, handles, frame, is_streaming,
                    lock, threads, cpc, stopSeen, raised >>

\* Lines 87-88, 94, 101: get_frame takes the lock, finds self.frame None and
\* returns None; no chunk, sleep 1/30 s.
SessSnapshotNone(s) ==
    /\ spc[s] = "snapshot"
    /\ LockFree
    /\ frame = NoFrame
    /\ snap' = [snap EXCEPT ![s] = NoFrame]
    /\ spc' = [spc EXCEPT ![s] = "test"]
    /\ UNCHANGED << deviceVars, configVars, camera, handles, frame, is_streaming,
                    lock, threads, cpc, stopSeen, raised >>

\* Lines 87-88: get_frame takes the lock and self.frame.copy() copies the
\* first half of the slot's pixel data (the second half is not yet written:
\* 0).
SessSnapshot(s) ==
    /\ spc[s] = "snapshot"
    /\ LockFree
    /\ frame # NoFrame
    /\ lock' = << "sess", s >>
    /\ snap' = [snap EXCEPT ![s] = << frame[1], 0 >>]
    /\ spc' = [spc EXCEPT ![s] = "copy"]
    /\ UNCHANGED << deviceVars, configVars, camera, handles, frame, is_streaming,
                    threads, cpc, stopSeen, raised >>

\* Line 96: cv2.imencode('.jpg', frame, [IMWRITE_JPEG_QUALITY, 85]).
JpegQuality == 85
Encode(f) == [ret |-> TRUE, buffer |-> << "jpg", JpegQuality, f >>]

\* Lines 98-100: one part of the multipart body.
Chunk(buffer) ==
    << "--frame\r\n", "Content-Type: image/jpeg\r\n\r\n", buffer, "\r\n" >>

\* The chunk a generator suspended at its yield has handed over.
Emitted(s) == Chunk(Encode(snap[s]).buffer)

\* A get_frame that returns the slot with the lock still held, through the
\* encode and the yield.
SessCopyKeepsLock(s) ==
    /\ spc[s] = "copy"
    /\ snap' = [snap EXCEPT ![s] = << @[1], frame[2] >>]
    /\ spc' = [spc EXCEPT ![s] = IF Encode(snap'[s]).ret THEN "yield" ELSE "test"]
    /\ UNCHANGED << deviceVars, configVars, camera, handles, frame, is_streaming,
                    lock, threads, cpc, stopSeen, raised >>

\* Lines 88, 94-100: the second half of the copy, get_frame returns
\* (releasing the lock); the frame is encoded and the chunk yielded.
SessCopy(s) ==
    /\ spc[s] = "copy"
    /\ snap' = [snap EXCEPT ![s] = << @[1], frame[2] >>]
    /\ lock' = NoOwner
    /\ spc' = [spc EXCEPT ![s] = IF Encode(snap'[s]).ret THEN "yield" ELSE "test"]
    /\ UNCHANGED << deviceVars, configVars, camera, handles, frame, is_streaming,
                    threads, cpc, stopSeen, raised >>

\* Line 101: the consumer asks for the next chunk; the generator resumes
\* after the yield and sleeps 1/30 s.
SessResume(s) ==
    /\ spc[s] = "yield"
    /\ spc' = [spc EXCEPT ![s] = "test"]
    /\ UNCHANGED << deviceVars, configVars, camera, handles, frame, is_streaming,
                    lock, threads, cpc, snap, stopSeen, raised >>

\* The consumer has gone, and the generator stops the camera on its way out.
SessAbandonStops(s) ==
    /\ spc[s] = "yield"
    /\ spc' = [spc EXCEPT ![s] = "ended"]
    /\ snap' = [snap EXCEPT ![s] = NoFrame]
    /\ stopSeen' = [stopSeen EXCEPT ![s] = FALSE]
    /\ is_streaming' = FALSE
    /\ UNCHANGED << deviceVars, configVars, camera, handles, frame,
                    lock, threads, cpc, raised >>

\* The consumer has gone: the server closes the generator at its yield.
SessAbandon(s) ==
    /\ spc[s] = "yield"
    /\ spc' = [spc EXCEPT ![s] = "ended"]
    /\ snap' = [snap EXCEPT ![s] = NoFrame]
    /\ stopSeen' = [stopSeen EXCEPT ![s] = FALSE]
    /\ UNCHANGED << deviceVars, configVars, camera, handles, frame, is_streaming,
                    lock, threads, cpc, raised >>

\* Every step of the generator of session s (not the route's guard).
SessStep(s) ==
    \/ SessTest(s) \/ SessSnapshotNone(s) \/ SessSnapshot(s) \/ SessCopy(s)
    \/ SessResume(s) \/ SessAbandon(s)

\* ------------------------------------------- camera_status (136-144)
\* The JSON body of GET /api/camera/status in the current state.
camera_status ==
    [is_streaming |-> is_streaming, width |-> width, height |-> height, fps |-> fps]

\* ------------------------------------------------------------------ Next
Next ==
    \/ \E c \in Ctl : StartOpen(c) /\ UNCHANGED main
    \/ \E c \in Ctl : StartFail(c) /\ UNCHANGED main
    \/ \E c \in Ctl : StartConfigure(c) /\ UNCHANGED main
    \/ \E c \in Ctl : StartSpawn(c) /\ UNCHANGED main
    \/ \E h \in 1 .. Len(handles) : Finalize(h) /\ UNCHANGED main
    \/ \E c \in Ctl : StopSignal(c) /\ UNCHANGED main
    \/ \E c \in Ctl : StopRelease(c) /\ UNCHANGED main
    \/ \E t \in Threads : CapTest(t) /\ UNCHANGED main
    \/ \E t \in Threads : CapReadOk(t) /\ UNCHANGED main
    \/ \E t \in Threads : CapReadFail(t) /\ UNCHANGED main
    \/ \E t \in Threads : CapSleep(t) /\ UNCHANGED main
    \/ \E t \in Threads : CapPublish(t) /\ UNCHANGED main
    \/ \E s \in Sess : FeedReject(s) /\ UNCHANGED main
    \/ \E s \in Sess : FeedAccept(s) /\ UNCHANGED main
    \/ \E s \in Sess : SessStep(s) /\ UNCHANGED main

Spec == Init /\ [][Next]_vars

\* --------------------------------------------------------- main (159-184)
\* Pcs of the main thread when the program is run as a script: "launch"
\* (the streamer constructed, line 172), "starting" (inside the start_streaming
\* call of line 175), "serving" (inside app.run, line 180), "finally" (app.run
\* has ended, at line 184), "stopping" (inside stop_streaming, the flag
\* cleared), "stopped" (stop_streaming returned), "exited" (the process is
\* gone).  how: the way app.run ended, "startfailed" for the return of line
\* 177.

\* The main thread's calls of start_streaming and stop_streaming.
MainCtl == 1
\* The request threads of the server that app.run runs.
ReqCtl == Ctl \ {MainCtl}

\* The ways app.run (line 180) can end: it returns, it is interrupted
\* (caught at line 181), or it raises something else.
RunEnds == {"return", "KeyboardInterrupt", "exception"}

InitMain == Constructed /\ main = [pc |-> "launch", how |-> "none"]

Running == main.pc # "exited"
Serving == main.pc = "serving"

\* Line 175: camera_streamer.start_streaming(), into initialize_camera.
MainStart ==
    /\ main.pc = "launch"
    /\ StartOpen(MainCtl)
    /\ main' = [main EXCEPT !.pc = "starting"]

\* Lines 175-177: start_streaming returned False; log, return.
MainStartFail ==
    /\ main.pc = "starting"
    /\ StartFail(MainCtl)
    /\ main' = [pc |-> "exited", how |-> "startfailed"]

\* Line 175: start_streaming's call of initialize_camera goes on (38-53).
MainStartConfigure ==
    /\ main.pc = "starting"
    /\ StartConfigure(MainCtl)
    /\ UNCHANGED main

\* Lines 175, 179-180: start_streaming returned True; app.run starts to serve.
MainStartSpawn ==
    /\ main.pc = "starting"
    /\ StartSpawn(MainCtl)
    /\ main' = [main EXCEPT !.pc = "serving"]

\* Lines 180-183: app.run ends; whichever way, control reaches the finally
\* block (after the log of line 182 for a KeyboardInterrupt).
AppRunEnds(how) ==
    /\ Serving
    /\ main' = [pc |-> "finally", how |-> how]
    /\ UNCHANGED << deviceVars, configVars, camera, handles, frame, is_streaming,
                    lock, threads, cpc, sessVars, raised >>

\* Line 184: camera_streamer.stop_streaming(), its line 69.
MainStopSignal ==
    /\ main.pc = "finally"
    /\ StopSignal(MainCtl)
    /\ main' = [main EXCEPT !.pc = "stopping"]

\* Line 184: stop_streaming's lines 70-72, and its return.
MainStopRelease ==
    /\ main.pc = "stopping"
    /\ StopRelease(MainCtl)
    /\ main' = [main EXCEPT !.pc = "stopped"]

\* main returns (or the exception propagates) and the interpreter exits; the
\* request threads and the capture threads are daemons and die with it.
MainExit ==
    /\ main.pc = "stopped"
    /\ main' = [main EXCEPT !.pc = "exited"]
    /\ UNCHANGED << deviceVars, configVars, camera, handles, frame, is_streaming,
                    lock, threads, cpc, sessVars, raised >>

\* A request thread enters start_camera or stop_camera: the server accepts
\* requests while app.run is serving.
ReqBegin(c) ==
    /\ Serving
    /\ StartOpen(c) \/ StopSignal(c)
    /\ UNCHANGED main

\* A request thread goes on with the call it is in.
ReqContinue(c) ==
    /\ Running
    /\ StartFail(c) \/ StartConfigure(c) \/ StartSpawn(c) \/ StopRelease(c)
    /\ UNCHANGED main

\* A /video_feed request arrives while app.run is serving.
ReqFeed(s) ==
    /\ Serving
    /\ FeedReject(s) \/ FeedAccept(s)
    /\ UNCHANGED main

\* A generator takes a step while the process is alive.
ReqSessStep(s) == Running /\ SessStep(s) /\ UNCHANGED main

\* A capture thread takes a step while the process is alive.
CapStep(t) ==
    /\ Running
    /\ CapTest(t) \/ CapReadOk(t) \/ CapReadFail(t) \/ CapSleep(t) \/ CapPublish(t)
    /\ UNCHANGED main

\* The interpreter finalizes an unreferenced handle while the process is alive.
FinalizeStep(h) == Running /\ Finalize(h) /\ UNCHANGED main

NextMain ==
    \/ MainStart
    \/ MainStartFail
    \/ MainStartConfigure
    \/ MainStartSpawn
    \/ \E how \in RunEnds : AppRunEnds(how)
    \/ MainStopSignal
    \/ MainStopRelease
    \/ MainExit
    \/ \E c \in ReqCtl : ReqBegin(c)
    \/ \E c \in ReqCtl : ReqContinue(c)
    \/ \E s \in Sess : ReqFeed(s)
    \/ \E s \in Sess : ReqSessStep(s)
    \/ \E t \in Threads : CapStep(t)
    \/ \E h \in 1 .. Len(handles) : FinalizeStep(h)

\* The program run as a script (python camera_server.py).
SpecMain == InitMain /\ [][NextMain]_vars

\* ================================================================ claims

\* C1: start_streaming() while is_streaming is true is a no-op: the camera
\* handle stays the same one and no second device is opened.
C1_StartWhileRunningIsNoOp ==
    [][\A c \in Ctl :
          (StartOpen(c) /\ is_streaming) => (camera' = camera /\ handles' = handles)]_vars

\* C2: stop_streaming() when already stopped never fails and changes nothing:
\* is_streaming stays false, the slot is unchanged, no thread is started and
\* no device is opened, whether or not a device was ever opened.
C2_StopWhenStoppedIsNoOp ==
    [][\A c \in Ctl :
          /\ (StopSignal(c) /\ ~is_streaming) =>
                /\ ~is_streaming' /\ frame' = frame /\ threads' = threads
                /\ handles' = handles /\ camera' = camera /\ ~raised'
          /\ StopRelease(c) =>
                /\ is_streaming' = is_streaming /\ frame' = frame
                /\ threads' = threads /\ Len(handles') = Len(handles)
                /\ camera' = camera /\ ~raised']_vars

\* A stop_streaming() call is past its first line on a streamer whose device
\* was never opened.
C2_Witness ==
    \E c \in Ctl : cpc[c] = "release" /\ camera = None /\ ~is_streaming

\* C3: when start_streaming() returns False because the device did not open,
\* is_streaming is false and no capture loop is running, whatever the state
\* before the call.
C3_FailedStartLeavesStopped ==
    [][\A c \in Ctl :
          StartFail(c) =>
             /\ ~is_streaming'
             /\ \A t \in 1 .. Len(threads') : threads'[t].pc = "done"]_vars

\* A frame as one publish writes it: both halves from the same capture, and
\* a capture the device has made.
Complete(f) == f[1] = f[2] /\ f[1] \in 1 .. devSeq

\* C4: every get_frame() result is None or one complete frame; no reader
\* ever holds a frame whose halves come from different publishes.
C4_NoTornFrame ==
    \A s \in Sess : spc[s] # "copy" => (snap[s] = NoFrame \/ Complete(snap[s]))

\* A reader is in the middle of its copy while a capture thread holds a newer
\* frame that it is about to publish.
C4_Witness ==
    \E s \in Sess, t \in Threads :
        /\ spc[s] = "copy"
        /\ threads[t].pc = "publish"
        /\ threads[t].frame # frame

\* C5: within a session a later get_frame() result is never a frame the
\* device delivered before the frame of an earlier result.
C5_SnapshotsNeverGoBackward ==
    [][\A s \in Sess :
          (SessSnapshot(s) /\ snap[s] # NoFrame) => frame[1] >= snap[s][1]]_vars

\* C6: a session that was live when stop_streaming() was called ends at its
\* next evaluation of the loop condition, whatever follows the stop.
C6_StopEndsLiveSessions ==
    [][\A s \in Sess : (SessTest(s) /\ stopSeen[s]) => spc'[s] = "ended"]_vars

\* C7: a capture thread returns only from its loop condition, having seen
\* is_streaming false (never because a read failed: a failed read leads to
\* the sleep and back to the loop condition), and a thread that holds a
\* delivered frame moves on only by publishing that frame.
C7_CaptureLoopSurvivesReadFailures ==
    [][\A t \in Threads :
          /\ (threads[t].pc # "done" /\ threads'[t].pc = "done") =>
                (threads[t].pc = "test" /\ ~is_streaming)
          /\ (threads[t].pc = "read" /\ threads'[t].pc # "read") =>
                threads'[t].pc \in {"sleep", "publish"}
          /\ (threads[t].pc = "sleep" /\ threads'[t].pc # "sleep") =>
                threads'[t].pc = "test"
          /\ (threads[t].pc = "publish" /\ threads'[t] # threads[t]) =>
                frame' = threads[t].frame]_vars

\* A capture thread is alive after a failed read (in its sleep) although the
\* handle it reads is not open, so that its reads can only fail, and the
\* device has delivered frames before.
C7_Witness ==
    \E t \in Threads :
        /\ threads[t].pc = "sleep"
        /\ is_streaming
        /\ ~IsOpened(camera)
        /\ frame # NoFrame

\* C8: once a start has completed, the status operation reports the width,
\* height and frame rate the device granted.
C8_StatusReportsGranted ==
    (/\ is_streaming
     /\ \A c \in Ctl : cpc[c] = "idle"
     /\ camera # None
     /\ IsOpened(camera))
    => /\ camera_status.width = handles[camera].props.w
       /\ camera_status.height = handles[camera].props.h
       /\ camera_status.fps = handles[camera].props.fps

\* A /video_feed request being answered.
FeedRequest(s) == FeedReject(s) \/ FeedAccept(s)

C10_SessionsAreReadOnly ==
    [][\A s \in Sess :
          SessStep(s) =>
             /\ UNCHANGED << frame, is_streaming, camera, handles, threads, devSeq >>
             /\ \A o \in Sess \ {s} :
                   spc'[o] = spc[o] /\ snap'[o] = snap[o]]_vars

\* A session was closed by the server (no stop has ever been issued: every
\* handle is still open) while the capture loop runs and another session
\* streams.
C10_Witness ==
    \E s, o \in Sess :
        /\ spc[s] = "ended"
        /\ spc[o] = "yield"
        /\ is_streaming
        /\ \A c \in Ctl : cpc[c] = "idle"
        /\ \A h \in 1 .. Len(handles) : handles[h].st = "open"
        /\ \E t \in Threads : threads[t].pc = "read"

\* A capture thread calling self.camera.read() (line 77), whatever it returns.
CapRead(t) == CapReadOk(t) \/ CapReadFail(t)

\* C12: the handle is released only after the capture loop has exited, so a
\* capture thread never calls read() on a handle that stop_streaming has
\* released.
C12_NoReadOnReleasedHandle ==
    [][\A t \in Threads : CapRead(t) => handles[camera].st # "released"]_vars

\* The capture threads that have not returned.
AliveThreads == { t \in Threads : threads[t].pc # "done" }

\* C13: at most one capture loop is alive, so the slot has one writer.
C13_OneCaptureLoop ==
    Cardinality(AliveThreads) <= 1

\* The request threads that are inside start_streaming or stop_streaming.
InTransition == { c \in Ctl : cpc[c] # "idle" }

\* C14: at most one start or stop transition is in flight at a time.
C14_TransitionsSerialized ==
    Cardinality(InTransition) <= 1

\* The session that holds the lock, if a session does.
LockHolders == { s \in Sess : lock = << "sess", s >> }

C16_DropToLatest ==
    [][/\ \A t \in Threads : CapPublish(t) => frame' = threads[t].frame
       /\ frame' = NoFrame \/ Len(frame') = 2
       /\ \A s \in Sess :
             (spc[s] # "yield" /\ spc'[s] = "yield") =>
                /\ frame # NoFrame
                /\ snap'[s] = frame
                /\ Chunk(Encode(snap'[s]).buffer) = Chunk(Encode(frame).buffer)]_vars

\* One session has handed over the latest frame; the other is still suspended
\* on a frame that has been overwritten since its snapshot.
C16_Witness ==
    /\ frame # NoFrame /\ frame[1] = 2
    /\ \E s \in Sess : spc[s] = "yield" /\ snap[s] = frame
    /\ \E s \in Sess : spc[s] = "yield" /\ snap[s] = << 1, 1 >>

\* The handles that are open: devices the process holds.
OpenHandles == { h \in 1 .. Len(handles) : handles[h].st = "open" }

\* C17: when a stop_streaming() completes with no other start or stop in
\* flight, no device handle is left open.
C17_NoHandleLeak ==
    [][\A c \in Ctl :
          (StopRelease(c) /\ InTransition = {c}) => OpenHandles' = {}]_vars

\* C18: whenever is_streaming is true the current camera handle exists, is
\* opened and has not been released.
C18_StreamingHasOpenHandle ==
    is_streaming => (camera # None /\ IsOpened(camera))

\* A step of start_streaming or stop_streaming by request thread c.
Transition(c) ==
    \/ StartOpen(c) \/ StartFail(c) \/ StartConfigure(c) \/ StartSpawn(c)
    \/ StopSignal(c) \/ StopRelease(c)

\* C19: the slot is never cleared: once a frame is published the slot stays
\* non-empty and get_frame() returns a frame, and no step of a stop or of a
\* (re)start changes the slot.
C19_SlotNeverCleared ==
    [][/\ frame # NoFrame => frame' # NoFrame
       /\ \A c \in Ctl : Transition(c) => frame' = frame
       /\ \A s \in Sess :
             (frame # NoFrame /\ spc[s] = "snapshot" /\ spc'[s] # "snapshot")
                => snap'[s] # NoFrame]_vars

\* After a stop and a restart on a second handle, before the new loop has
\* published, a session has taken the frame captured before the stop.
C19_Witness ==
    /\ is_streaming /\ camera = 2 /\ handles[1].st = "released"
    /\ Len(threads) = 2 /\ threads[1].pc = "done" /\ threads[2].pc = "read"
    /\ devSeq = 1 /\ frame = << 1, 1 >>
    /\ \E s \in Sess : spc[s] = "yield" /\ snap[s] = frame

\* C20: a failed device read changes nothing but the loop's own position:
\* the slot, is_streaming, the camera handle and every session are as before.
C20_FailedReadChangesNothing ==
    [][\A t \in Threads :
          CapReadFail(t) =>
             /\ UNCHANGED << frame, is_streaming, camera, handles, lock >>
             /\ UNCHANGED << deviceVars, configVars, cpc, sessVars >>
             /\ \A u \in Threads \ {t} : threads'[u] = threads[u]
             /\ threads'[t].pc \notin {"done", "publish"}]_vars

\* Between read failures the loop sleeps while a session has handed over the
\* last frame that was captured.
C20_Witness ==
    /\ is_streaming /\ frame # NoFrame
    /\ \E t \in Threads : threads[t].pc = "sleep"
    /\ \E s \in Sess : spc[s] = "yield" /\ snap[s] = frame /\ frame[1] = devSeq

\* C11: on every path by which app.run ends after a successful start, by the
\* time the process exits stop_streaming() has run and the device is
\* released: is_streaming is false and no handle on the device is open.
C11_ReleasedOnEveryExit ==
    (main.pc = "exited" /\ main.how \in RunEnds) =>
        (~is_streaming /\ OpenHandles = {})

====
